---- MODULE Spec2Model ----
(***************************************************************************)
(* perspective::Table (src/cpp/perspective/src/cpp/table.cpp): the row     *)
(* identity assignment (psp_op, psp_pkey, psp_okey), the offset/limit ring *)
(* and the binding of the table to its gnode in the pool.                  *)
(*                                                                         *)
(* The unsigned 32-bit values of the code (m_offset, m_limit, row_count,   *)
(* ridx) range over 0..UMax here, with sums wrapping modulo UMax + 1, and  *)
(* the int32 key columns hold the upper half of that range as negative     *)
(* values: the wrap of the sums and the signed store are part of the model *)
(* at a width TLC can enumerate.                                           *)
(***************************************************************************)
EXTENDS Integers, Sequences, FiniteSets, TLC

\* ------------------------------------------------------------- bounds
UMax == 7
MaxRows == 3
MaxCycles == 2
MaxGnodes == 2
MaxCols == 3
MaxThreads == 3
MaxTables == 2

\* ------------------------------------------------------ integer widths
\* the value of an expression of type std::uint32_t
u32(x) == x % (UMax + 1)

\* set_nth<std::int32_t>(ridx, v) with v an unsigned value: the conversion
\* to the signed type keeps the bit pattern, the upper half turns negative
i32(x) == IF u32(x) > UMax \div 2 THEN u32(x) - (UMax + 1) ELSE u32(x)

\* The outcomes of undefined behaviour (x % 0, vector::erase past the end):
\* the process is killed, or the operation yields one of two values.
UBModes == {"trap", "alt1", "alt2"}

\* a % b on unsigned operands; b = 0 is undefined behaviour
urem(a, b, ub) == IF b # 0 THEN a % b ELSE IF ub = "alt1" THEN a ELSE 0

\* ---------------------------------------------------------- input sets
\* limits a caller passes: zero, the ring of one key, a ring as long as the
\* longest batch, and the "unbounded" sentinel
Limits == {0, 1, MaxRows, UMax}
Indexes == {"", "id"}
Ops == {"OP_INSERT", "OP_DELETE", "OP_CLEAR"}
NameSeqs == {<<"id", "x">>, <<"id">>}
TypeSeqs == {<<"DTYPE_INT32", "DTYPE_FLOAT64">>}

\* the values of the user column "id" of a batch of n rows: 10, 11, 12, ...
IdCol(n) == [i \in 1..n |-> 10 + (i - 1)]

\* a fresh batch of n rows with the user columns "id" and "x"
Batch(n) ==
    [columns |-> <<"id", "x">>,
     types |-> <<"DTYPE_INT32", "DTYPE_FLOAT64">>,
     size |-> n,
     data |-> ("id" :> IdCol(n)) @@ ("x" :> [i \in 1..n |-> 0])]

Batches == {Batch(n) : n \in {0, 1, MaxRows}}

\* a block handed to replace_data_table: one row, the given columns
Block(cols, tys) ==
    [columns |-> cols,
     types |-> tys,
     size |-> 1,
     data |-> [c \in {cols[k] : k \in 1..Len(cols)} |-> <<0>>]]

Blocks ==
    {Block(<<"id", "x">>, <<"DTYPE_INT32", "DTYPE_FLOAT64">>)}

NoTable == [columns |-> <<>>, types |-> <<>>, size |-> 0, data |-> <<>>]
NullGnode == [ref |-> 0, id |-> 0, out_schema |-> <<>>, in_schema |-> <<>>]

\* --------------------------------------------------------------- state
VARIABLES
    GLOBAL_TABLE_ID,   \* the process-wide id counter
    constructed,       \* the Table object exists
    m_init, m_id, m_column_names, m_data_types,
    m_offset, m_limit, m_index, m_gnode_set,
    m_gnode,           \* the bound gnode (NullGnode: empty shared_ptr)
    pool,              \* *m_pool: the registered gnodes and the pending inputs
    heap_count,        \* gnodes constructed so far (object identities)
    data_table,        \* the caller's batch as init left it (NoTable after
                       \* any other call: the caller has released it)
    last,              \* the last call: its name, arguments and outcome
    cum_rows,          \* sum of the row_count arguments of all init calls
    halted,            \* the process was killed by a trap
    pc,                \* the statement a call in progress stands at, where
                       \* calls are followed statement by statement
    threads            \* the threads constructing tables, where constructions
                       \* are followed thread by thread

table_vars == <<m_init, m_id, m_column_names, m_data_types, m_offset,
                m_limit, m_index, m_gnode_set, m_gnode>>
vars == <<GLOBAL_TABLE_ID, constructed, table_vars, pool, heap_count,
          data_table, last, cum_rows, halted, pc, threads>>

\* no call is in progress
Idle == [call |-> "", at |-> "idle"]

\* the table, the pool and the heap as they are in the current state
Now ==
    [m_init |-> m_init, m_id |-> m_id, m_column_names |-> m_column_names,
     m_data_types |-> m_data_types, m_offset |-> m_offset,
     m_limit |-> m_limit, m_index |-> m_index, m_gnode_set |-> m_gnode_set,
     m_gnode |-> m_gnode, pool |-> pool, heap_count |-> heap_count]

\* the record of a call; pre is the state the call was made in
Call(op, status, arg, ret) ==
    [op |-> op, status |-> status, arg |-> arg, ret |-> ret, pre |-> Now]

\* ------------------------------------------------- t_schema, t_data_table
has_column(cols, name) == \E k \in 1..Len(cols) : cols[k] = name

\* zero-based index of a column
get_colidx(cols, name) == (CHOOSE k \in 1..Len(cols) : cols[k] = name) - 1

get_schema_of(dt) == [columns |-> dt.columns, types |-> dt.types]

\* t_data_table::add_column followed by the fill of the whole column
add_column(dt, name, dtype, vals) ==
    IF has_column(dt.columns, name)
    THEN [dt EXCEPT !.data = [c \in DOMAIN dt.data |->
                                 IF c = name THEN vals ELSE dt.data[c]]]
    ELSE [dt EXCEPT !.columns = Append(dt.columns, name),
                    !.types = Append(dt.types, dtype),
                    !.data = dt.data @@ (name :> vals)]

\* t_data_table::clone_column: a copy of an existing column, with its type
clone_column(dt, existing, name) ==
    [dt EXCEPT !.columns = Append(dt.columns, name),
               !.types = Append(dt.types,
                                dt.types[get_colidx(dt.columns, existing) + 1]),
               !.data = dt.data @@ (name :> dt.data[existing])]

\* std::vector::erase(begin() + idx); idx >= size is undefined behaviour
erase(s, idx, ub) ==
    IF idx < Len(s)
    THEN [k \in 1..(Len(s) - 1) |-> IF k <= idx THEN s[k] ELSE s[k + 1]]
    ELSE IF ub = "alt1" /\ Len(s) > 0 THEN SubSeq(s, 1, Len(s) - 1) ELSE s

\* ------------------------------------------------------------- t_pool
\* register_gnode: the gnode takes the next slot; its id is the slot index
pool_register_gnode(p, ref) == [p EXCEPT !.slots = Append(p.slots, ref)]

\* the slots of the pool that hold a gnode
Registrations(p) == {k \in 1..Len(p.slots) : p.slots[k] # 0}

pool_next_id(p) == Len(p.slots)

\* send: the rows are appended to the input port of the addressed gnode,
\* where they wait for the next _process
Sent(id, port, dt) == [gnode |-> id, port |-> port, columns |-> dt.columns]

pool_send(p, id, port, dt) ==
    [p EXCEPT !.pending = p.pending \cup {Sent(id, port, dt)}]

\* _process: every pending input is merged
pool_process(p) == [p EXCEPT !.pending = {}]

\* unregister_gnode: the slot is cleared
pool_unregister_gnode(p, id) == [p EXCEPT !.slots[id + 1] = 0]

pool_registered(p, id) == id + 1 \in 1..Len(p.slots) /\ p.slots[id + 1] # 0

\* --------------------------------------------- the row-identity assigner
OP_INSERT == "INSERT"
OP_DELETE == "DELETE"

\* process_op_column whose switch falls through to the INSERT fill
process_op_column_fallthrough(dt, op) ==
    add_column(dt, "psp_op", "DTYPE_UINT8", [i \in 1..dt.size |-> OP_INSERT])

process_op_column(dt, op) ==
    add_column(dt, "psp_op", "DTYPE_UINT8",
               [i \in 1..dt.size |->
                   IF op = "OP_DELETE" THEN OP_DELETE ELSE OP_INSERT])

\* the value stored in row ridx (zero-based) of both key columns
synth_key(ridx, offset, limit, ub) == i32(urem(u32(ridx + offset), limit, ub))

\* process_index_column that synthesizes the keys of a keyed table too
process_index_column_rownum(dt, index, offset, limit, ub) ==
    LET keys == [i \in 1..dt.size |-> synth_key(i - 1, offset, limit, ub)]
    IN add_column(add_column(dt, "psp_pkey", "DTYPE_INT32", keys),
                  "psp_okey", "DTYPE_INT32", keys)

process_index_column(dt, index, offset, limit, ub) ==
    IF index = ""
    THEN LET keys == [i \in 1..dt.size |-> synth_key(i - 1, offset, limit, ub)]
         IN add_column(add_column(dt, "psp_pkey", "DTYPE_INT32", keys),
                       "psp_okey", "DTYPE_INT32", keys)
    ELSE clone_column(clone_column(dt, index, "psp_pkey"), index, "psp_okey")

\* calculate_offset without the reduction modulo the limit
calculate_offset_unreduced(offset, row_count, limit, ub) ==
    u32(offset + row_count)

\* the capacity ring
calculate_offset(offset, row_count, limit, ub) ==
    urem(u32(offset + row_count), limit, ub)

\* init divides by m_limit in the key loop (when it runs) and in
\* calculate_offset (always)
init_traps(ub) == m_limit = 0 /\ ub = "trap"

\* ------------------------------------------------------------- gnodes
\* the output schema of make_gnode: the indices of both columns are taken
\* from in_schema, the erasures are applied one after the other
make_gnode_out(in_schema, ub) ==
    LET n0 == in_schema.columns
        t0 == in_schema.types
        p == has_column(n0, "psp_pkey")
        pi == IF p THEN get_colidx(n0, "psp_pkey") ELSE 0
        n1 == IF p THEN erase(n0, pi, ub) ELSE n0
        t1 == IF p THEN erase(t0, pi, ub) ELSE t0
        o == has_column(n0, "psp_op")
        oi == IF o THEN get_colidx(n0, "psp_op") ELSE 0
        n2 == IF o THEN erase(n1, oi, ub) ELSE n1
        t2 == IF o THEN erase(t1, oi, ub) ELSE t1
    IN [columns |-> n2, types |-> t2]

\* make_gnode erases past the end of the vectors
make_gnode_traps(in_schema, ub) ==
    LET n0 == in_schema.columns
        p == has_column(n0, "psp_pkey")
        o == has_column(n0, "psp_op")
        len1 == IF p THEN Len(n0) - 1 ELSE Len(n0)
    IN ub = "trap" /\ o /\ get_colidx(n0, "psp_op") >= len1

make_gnode(in_schema, ub) ==
    [ref |-> heap_count + 1,
     id |-> 0,
     out_schema |-> make_gnode_out(in_schema, ub),
     in_schema |-> in_schema]


\* ------------------------------------------------------------- actions
Init ==
    /\ GLOBAL_TABLE_ID = 0
    /\ constructed = FALSE
    /\ m_init = FALSE
    /\ m_id = 0
    /\ m_column_names = <<>>
    /\ m_data_types = <<>>
    /\ m_offset = 0
    /\ m_limit = 0
    /\ m_index = ""
    /\ m_gnode_set = FALSE
    /\ m_gnode = NullGnode
    /\ pool = [slots |-> <<>>, pending |-> {}]
    /\ heap_count = 0
    /\ data_table = NoTable
    /\ last = Call("start", "ok", <<>>, <<>>)
    /\ cum_rows = 0
    /\ halted = FALSE
    /\ pc = Idle
    /\ threads = <<>>

\* Table::Table
Table(column_names, data_types, limit, index) ==
    /\ ~constructed
    /\ UNCHANGED <<pc, threads>>
    /\ constructed' = TRUE
    /\ m_init' = FALSE
    /\ m_id' = GLOBAL_TABLE_ID
    /\ GLOBAL_TABLE_ID' = GLOBAL_TABLE_ID + 1
    /\ m_column_names' = column_names
    /\ m_data_types' = data_types
    /\ m_offset' = 0
    /\ m_limit' = limit
    /\ m_index' = index
    /\ m_gnode_set' = FALSE
    /\ last' = Call("Table", "ok", [limit |-> limit, index |-> index], <<>>)
    /\ data_table' = NoTable
    /\ UNCHANGED <<m_gnode, pool, heap_count, cum_rows, halted>>

\* the rows a table may be given in all: MaxCycles turns of its ring (one
\* row where the ring is empty)
RowBudget == IF m_limit = 0 THEN 1 ELSE MaxCycles * m_limit

\* init that makes a gnode on every call
init_makes_gnode_always == TRUE

\* line 40: the first init constructs and registers the gnode
init_makes_gnode == ~m_gnode_set

\* Table::init
init(dt0, row_count, op, ub) ==
    /\ constructed /\ ~halted
    /\ UNCHANGED <<pc, threads>>
    /\ cum_rows + row_count <= RowBudget
    /\ LET arg == [row_count |-> row_count, op |-> op]
           dt1 == process_op_column(dt0, op)
           dt2 == process_index_column(dt1, m_index, m_offset, m_limit, ub)
           off == calculate_offset(m_offset, row_count, m_limit, ub)
           fresh == make_gnode(get_schema_of(dt2), ub)
           g == IF init_makes_gnode
                THEN [fresh EXCEPT !.id = pool_next_id(pool)]
                ELSE m_gnode
           p1 == IF init_makes_gnode
                 THEN pool_register_gnode(pool, g.ref)
                 ELSE pool
       IN IF init_traps(ub) \/ (init_makes_gnode
                                /\ make_gnode_traps(get_schema_of(dt2), ub))
          THEN /\ halted' = TRUE
               /\ last' = Call("init", "trap", arg, <<>>)
               /\ data_table' = NoTable
               /\ UNCHANGED <<GLOBAL_TABLE_ID, constructed, table_vars, pool,
                              heap_count, cum_rows>>
          ELSE /\ data_table' = dt2
               /\ m_offset' = off
               /\ m_gnode' = g
               /\ m_gnode_set' = TRUE
               /\ heap_count' = IF init_makes_gnode THEN heap_count + 1
                                ELSE heap_count
               /\ pool' = pool_send(p1, g.id, 0, dt2)
               /\ m_init' = TRUE
               /\ cum_rows' = cum_rows + row_count
               /\ last' = Call("init", "ok", arg, <<>>)
               /\ UNCHANGED <<GLOBAL_TABLE_ID, constructed, m_id,
                              m_column_names, m_data_types, m_limit, m_index,
                              halted>>

\* the PSP_VERBOSE_ASSERT(m_init, "touching uninited object") of an accessor
\* or of replace_data_table: a failed assertion raises and the call does nothing
PSP_VERBOSE_ASSERT(cond) == IF cond THEN "ok" ELSE "UninitializedError"

\* a call that reads the table: it fails on the assertion or returns ret
Read(op, checked, ret) ==
    /\ constructed /\ ~halted
    /\ UNCHANGED <<pc, threads>>
    /\ last' = IF PSP_VERBOSE_ASSERT(checked) = "ok"
               THEN Call(op, "ok", <<>>, ret)
               ELSE Call(op, PSP_VERBOSE_ASSERT(checked), <<>>, <<>>)
    /\ UNCHANGED <<GLOBAL_TABLE_ID, constructed, table_vars, pool, heap_count,
                   cum_rows, halted>>
    /\ data_table' = NoTable

\* Table::size: the size of the gnode's table, held by the gnode
size == Read("size", m_init, "m_gnode->get_table()->size()")

\* Table::get_schema
get_schema == Read("get_schema", m_init, m_gnode.out_schema)

\* Table::get_id: no assertion
get_id == Read("get_id", TRUE, m_id)

\* Table::get_pool
get_pool == Read("get_pool", m_init, "m_pool")

\* Table::get_gnode
get_gnode == Read("get_gnode", m_init, m_gnode.ref)

\* Table::get_column_names
get_column_names == Read("get_column_names", m_init, m_column_names)

\* Table::get_data_types
get_data_types == Read("get_data_types", m_init, m_data_types)

\* get_index without its assertion
get_index_unchecked == Read("get_index", TRUE, m_index)

\* Table::get_index
get_index == Read("get_index", m_init, m_index)

\* Table::set_column_names: no assertion
set_column_names(column_names) ==
    /\ constructed /\ ~halted
    /\ UNCHANGED <<pc, threads>>
    /\ m_column_names' = column_names
    /\ last' = Call("set_column_names", "ok", column_names, <<>>)
    /\ UNCHANGED <<GLOBAL_TABLE_ID, constructed, m_init, m_id, m_data_types,
                   m_offset, m_limit, m_index, m_gnode_set, m_gnode, pool,
                   heap_count, cum_rows, halted>>
    /\ data_table' = NoTable

\* Table::set_data_types: no assertion
set_data_types(data_types) ==
    /\ constructed /\ ~halted
    /\ UNCHANGED <<pc, threads>>
    /\ m_data_types' = data_types
    /\ last' = Call("set_data_types", "ok", data_types, <<>>)
    /\ UNCHANGED <<GLOBAL_TABLE_ID, constructed, m_init, m_id, m_column_names,
                   m_offset, m_limit, m_index, m_gnode_set, m_gnode, pool,
                   heap_count, cum_rows, halted>>
    /\ data_table' = NoTable

\* replace_data_table without its assertion
replace_data_table_unchecked == TRUE

\* line 68: the assertion of replace_data_table
replace_data_table_checks == m_init

\* replace_data_table putting the new gnode in the slot of the bound one
replace_data_table_register_in_place(p, ref) ==
    [p EXCEPT !.slots[Len(p.slots)] = ref]

\* line 71: m_pool->register_gnode(m_gnode.get())
replace_data_table_register_gnode(p, ref) == pool_register_gnode(p, ref)

\* Table::replace_data_table
replace_data_table(block, ub) ==
    /\ constructed /\ ~halted
    /\ UNCHANGED <<pc, threads>>
    /\ replace_data_table_checks => heap_count < MaxGnodes
    /\ LET status == PSP_VERBOSE_ASSERT(replace_data_table_checks)
           in_schema == get_schema_of(block)
           g == [make_gnode(in_schema, ub) EXCEPT !.id = pool_next_id(pool)]
           p1 == replace_data_table_register_gnode(pool, g.ref)
           p2 == pool_send(p1, g.id, 0, block)
       IN IF status # "ok"
          THEN /\ last' = Call("replace_data_table", status, block, <<>>)
               /\ data_table' = NoTable
               /\ UNCHANGED <<GLOBAL_TABLE_ID, constructed, table_vars, pool,
                              heap_count, cum_rows, halted>>
          ELSE IF make_gnode_traps(in_schema, ub)
          THEN /\ halted' = TRUE
               /\ last' = Call("replace_data_table", "trap", block, <<>>)
               /\ data_table' = NoTable
               /\ UNCHANGED <<GLOBAL_TABLE_ID, constructed, table_vars, pool,
                              heap_count, cum_rows>>
          ELSE /\ m_gnode' = g
               /\ m_gnode_set' = TRUE
               /\ heap_count' = heap_count + 1
               /\ pool' = pool_process(p2)
               /\ last' = Call("replace_data_table", "ok", block,
                               [sent |-> Sent(g.id, 0, block)])
               /\ data_table' = NoTable
               /\ UNCHANGED <<GLOBAL_TABLE_ID, constructed, m_init, m_id,
                              m_column_names, m_data_types, m_offset, m_limit,
                              m_index, cum_rows, halted>>

\* Table::unregister_gnode
unregister_gnode(id) ==
    /\ constructed /\ ~halted
    /\ UNCHANGED <<pc, threads>>
    /\ LET status == PSP_VERBOSE_ASSERT(m_init)
       IN /\ last' = Call("unregister_gnode", status, id, <<>>)
          /\ pool' = IF status = "ok" THEN pool_unregister_gnode(pool, id)
                     ELSE pool
    /\ UNCHANGED <<GLOBAL_TABLE_ID, constructed, table_vars, heap_count,
                   cum_rows, halted>>
    /\ data_table' = NoTable

\* Table::reset_gnode: the reset is the gnode's own business
reset_gnode(id) ==
    /\ constructed /\ ~halted
    /\ UNCHANGED <<pc, threads>>
    /\ last' = Call("reset_gnode", PSP_VERBOSE_ASSERT(m_init), id, <<>>)
    /\ UNCHANGED <<GLOBAL_TABLE_ID, constructed, table_vars, pool, heap_count,
                   cum_rows, halted>>
    /\ data_table' = NoTable

\* the pool's scheduler runs t_pool::_process on its own
process ==
    /\ ~halted
    /\ UNCHANGED <<pc, threads>>
    /\ pool.pending # {}
    /\ pool' = pool_process(pool)
    /\ last' = Call("_process", "ok", <<>>, <<>>)
    /\ UNCHANGED <<GLOBAL_TABLE_ID, constructed, table_vars, heap_count,
                   cum_rows, halted>>
    /\ data_table' = NoTable

\* the outcomes of undefined behaviour that a call can meet: one outcome
\* where the call meets none
InitUB == IF m_limit = 0 THEN UBModes ELSE {"alt2"}

ReplaceUB(block) ==
    IF make_gnode_traps(get_schema_of(block), "trap") THEN UBModes
    ELSE {"alt2"}

\* ids the pool has issued and still holds
RegisteredIds == {k \in 0..(MaxGnodes - 1) : pool_registered(pool, k)}

Next ==
    \/ \E n \in NameSeqs, t \in TypeSeqs, l \in Limits, x \in Indexes :
          Table(n, t, l, x)
    \/ \E dt \in Batches, op \in Ops, ub \in InitUB :
          init(dt, dt.size, op, ub)
    \/ size
    \/ get_schema
    \/ get_id
    \/ get_pool
    \/ get_gnode
    \/ get_column_names
    \/ get_data_types
    \/ get_index
    \/ \E n \in NameSeqs : set_column_names(n)
    \/ \E t \in TypeSeqs : set_data_types(t)
    \/ \E b \in Blocks : \E ub \in ReplaceUB(b) : replace_data_table(b, ub)
    \/ \E id \in RegisteredIds : unregister_gnode(id)
    \/ \E id \in RegisteredIds : reset_gnode(id)
    \/ process

Spec == Init /\ [][Next]_vars

\* ------------------------------------- init and replace_data_table, by statement
\* Table::init setting m_init before it sends
init_order_mark_first ==
    <<"process_op_column", "process_index_column", "calculate_offset",
      "make_gnode", "register_gnode", "m_init", "send", "return">>

\* The statements of Table::init (lines 36-51) and of
\* Table::replace_data_table (lines 68-73) in the order of the code.
init_order ==
    <<"process_op_column", "process_index_column", "calculate_offset",
      "make_gnode", "register_gnode", "send", "m_init", "return">>

\* replace_data_table running the key assignment on the new block
replace_data_table_order_assigns_keys ==
    <<"process_index_column", "make_gnode", "register_gnode", "send",
      "_process", "return">>

\* replace_data_table returning after the send
replace_data_table_order_unprocessed ==
    <<"make_gnode", "register_gnode", "send", "return">>

replace_data_table_order ==
    <<"make_gnode", "register_gnode", "send", "_process", "return">>

order_of(call) ==
    IF call = "init" THEN init_order ELSE replace_data_table_order

\* the statement after the one the call stands at
advance(p) ==
    LET o == order_of(p.call)
        k == CHOOSE k \in 1..Len(o) : o[k] = p.at
    IN [p EXCEPT !.at = o[k + 1]]

\* the call stands at its first statement
Running(call) == [call |-> call, at |-> order_of(call)[1]]

At(call, at) == pc.call = call /\ pc.at = at

\* the call in progress has executed the statement stmt
Passed(stmt) ==
    LET o == order_of(pc.call)
    IN /\ pc.at # "idle"
       /\ \E i, j \in 1..Len(o) : o[i] = stmt /\ o[j] = pc.at /\ i < j

\* a call of Table::init enters the method
call_init(dt0, row_count, op) ==
    /\ pc.at = "idle" /\ constructed /\ ~halted
    /\ m_limit # 0
    /\ cum_rows + row_count <= RowBudget
    /\ pc' = Running("init")
    /\ last' = Call("init", "running", [row_count |-> row_count, op |-> op],
                    <<>>)
    /\ data_table' = dt0
    /\ cum_rows' = cum_rows + row_count
    /\ UNCHANGED <<GLOBAL_TABLE_ID, constructed, table_vars, pool, heap_count,
                   halted, threads>>

\* line 36
step_process_op_column ==
    /\ At("init", "process_op_column")
    /\ data_table' = process_op_column(data_table, last.arg.op)
    /\ pc' = advance(pc)
    /\ UNCHANGED <<GLOBAL_TABLE_ID, constructed, table_vars, pool, heap_count,
                   last, cum_rows, halted, threads>>

\* line 37
step_process_index_column ==
    /\ pc.at = "process_index_column"
    /\ data_table' = process_index_column(data_table, m_index, m_offset,
                                          m_limit, "alt2")
    /\ pc' = advance(pc)
    /\ UNCHANGED <<GLOBAL_TABLE_ID, constructed, table_vars, pool, heap_count,
                   last, cum_rows, halted, threads>>

\* line 38
step_calculate_offset ==
    /\ At("init", "calculate_offset")
    /\ m_offset' = calculate_offset(m_offset, last.arg.row_count, m_limit,
                                    "alt2")
    /\ pc' = advance(pc)
    /\ UNCHANGED <<GLOBAL_TABLE_ID, constructed, m_init, m_id, m_column_names,
                   m_data_types, m_limit, m_index, m_gnode_set, m_gnode, pool,
                   heap_count, data_table, last, cum_rows, halted, threads>>

\* lines 40-43 and 69-70: make_gnode and set_gnode; init skips them and the
\* registration when a gnode is bound
step_make_gnode ==
    /\ pc.at = "make_gnode"
    /\ IF pc.call = "init" /\ m_gnode_set
       THEN /\ pc' = advance(advance(pc))
            /\ UNCHANGED <<m_gnode, m_gnode_set, heap_count>>
       ELSE /\ m_gnode' = make_gnode(get_schema_of(data_table), "alt2")
            /\ m_gnode_set' = TRUE
            /\ heap_count' = heap_count + 1
            /\ pc' = advance(pc)
    /\ UNCHANGED <<GLOBAL_TABLE_ID, constructed, m_init, m_id, m_column_names,
                   m_data_types, m_offset, m_limit, m_index, pool, data_table,
                   last, cum_rows, halted, threads>>

\* lines 44 and 71: the pool gives the gnode its id
step_register_gnode ==
    /\ pc.at = "register_gnode"
    /\ m_gnode' = [m_gnode EXCEPT !.id = pool_next_id(pool)]
    /\ pool' = pool_register_gnode(pool, m_gnode.ref)
    /\ pc' = advance(pc)
    /\ UNCHANGED <<GLOBAL_TABLE_ID, constructed, m_init, m_id, m_column_names,
                   m_data_types, m_offset, m_limit, m_index, m_gnode_set,
                   heap_count, data_table, last, cum_rows, halted, threads>>

\* lines 49 and 72
step_send ==
    /\ pc.at = "send"
    /\ pool' = pool_send(pool, m_gnode.id, 0, data_table)
    /\ pc' = advance(pc)
    /\ UNCHANGED <<GLOBAL_TABLE_ID, constructed, table_vars, heap_count,
                   data_table, last, cum_rows, halted, threads>>

\* line 51
step_m_init ==
    /\ At("init", "m_init")
    /\ m_init' = TRUE
    /\ pc' = advance(pc)
    /\ UNCHANGED <<GLOBAL_TABLE_ID, constructed, m_id, m_column_names,
                   m_data_types, m_offset, m_limit, m_index, m_gnode_set,
                   m_gnode, pool, heap_count, data_table, last, cum_rows,
                   halted, threads>>

\* line 73
step_process ==
    /\ At("replace_data_table", "_process")
    /\ pool' = pool_process(pool)
    /\ pc' = advance(pc)
    /\ UNCHANGED <<GLOBAL_TABLE_ID, constructed, table_vars, heap_count,
                   data_table, last, cum_rows, halted, threads>>

\* the call returns to the caller
step_return ==
    /\ pc.at = "return"
    /\ last' = [last EXCEPT !.status = "ok"]
    /\ pc' = Idle
    /\ UNCHANGED <<GLOBAL_TABLE_ID, constructed, table_vars, pool, heap_count,
                   data_table, cum_rows, halted, threads>>

\* a call of Table::replace_data_table: line 68, then the method is entered
call_replace_data_table(block) ==
    /\ pc.at = "idle" /\ constructed /\ ~halted
    /\ m_init => heap_count < MaxGnodes
    /\ IF PSP_VERBOSE_ASSERT(m_init) = "ok"
       THEN /\ pc' = Running("replace_data_table")
            /\ last' = Call("replace_data_table", "running", block, <<>>)
            /\ data_table' = block
       ELSE /\ last' = Call("replace_data_table", PSP_VERBOSE_ASSERT(m_init),
                            block, <<>>)
            /\ UNCHANGED <<pc, data_table>>
    /\ UNCHANGED <<GLOBAL_TABLE_ID, constructed, table_vars, pool, heap_count,
                   cum_rows, halted, threads>>

\* between two calls the caller may unregister a gnode
idle_unregister_gnode(id) == pc.at = "idle" /\ unregister_gnode(id)

StepNext ==
    \/ \E n \in NameSeqs, t \in TypeSeqs, l \in Limits, x \in Indexes :
          Table(n, t, l, x)
    \/ \E dt \in Batches, op \in Ops : call_init(dt, dt.size, op)
    \/ step_process_op_column
    \/ step_process_index_column
    \/ step_calculate_offset
    \/ step_make_gnode
    \/ step_register_gnode
    \/ step_send
    \/ step_m_init
    \/ step_process
    \/ step_return
    \/ \E b \in Blocks : call_replace_data_table(b)
    \/ \E id \in RegisteredIds : idle_unregister_gnode(id)

StepSpec == Init /\ [][StepNext]_vars

\* ------------------------------------------ make_gnode over input schemas
\* the column names a schema is drawn from, and the type of each
SchemaNames == {"id", "x", "psp_pkey", "psp_op", "psp_okey"}

dtype_of(name) ==
    CASE name = "x" -> "DTYPE_FLOAT64"
      [] name = "psp_op" -> "DTYPE_UINT8"
      [] OTHER -> "DTYPE_INT32"

\* the schemas of 1..MaxCols distinct columns, in every order
Schemas ==
    UNION {{c \in [1..n -> SchemaNames] :
               \A i, j \in 1..n : i # j => c[i] # c[j]} : n \in 1..MaxCols}

SchemaBlocks ==
    {Block(c, [k \in 1..Len(c) |-> dtype_of(c[k])]) : c \in Schemas}

\* a table that has ingested a batch is given a new block of any schema
GnodeNext ==
    \/ \E x \in Indexes : Table(<<"id", "x">>, <<"DTYPE_INT32", "DTYPE_FLOAT64">>,
                                MaxRows, x)
    \/ \E dt \in Batches : init(dt, dt.size, "OP_INSERT", "alt2")
    \/ \E b \in SchemaBlocks : \E ub \in ReplaceUB(b) :
          replace_data_table(b, ub)

GnodeSpec == Init /\ [][GnodeNext]_vars

\* ------------------------------ Table::Table called from several threads
\* GLOBAL_TABLE_ID is a plain static t_uindex and m_id(GLOBAL_TABLE_ID++)
\* reads it and writes it back incremented: constructions running in
\* different threads race on it, and the reads and writes of the threads
\* come in any order.
Threads == 1..MaxThreads

ThreadInit ==
    /\ GLOBAL_TABLE_ID = 0
    /\ constructed = FALSE
    /\ m_init = FALSE
    /\ m_id = 0
    /\ m_column_names = <<>>
    /\ m_data_types = <<>>
    /\ m_offset = 0
    /\ m_limit = 0
    /\ m_index = ""
    /\ m_gnode_set = FALSE
    /\ m_gnode = NullGnode
    /\ pool = [slots |-> <<>>, pending |-> {}]
    /\ heap_count = 0
    /\ data_table = NoTable
    /\ last = Call("start", "ok", <<>>, <<>>)
    /\ cum_rows = 0
    /\ halted = FALSE
    /\ pc = Idle
    /\ threads = [t \in Threads |-> [at |-> "idle", read |-> 0, m_ids |-> <<>>]]

\* line 20, first half: the thread reads the counter
Table_read(t) ==
    /\ threads[t].at = "idle"
    /\ Len(threads[t].m_ids) < MaxTables
    /\ threads' = [threads EXCEPT ![t].at = "read",
                                  ![t].read = GLOBAL_TABLE_ID]
    /\ UNCHANGED <<GLOBAL_TABLE_ID, constructed, table_vars, pool, heap_count,
                   data_table, last, cum_rows, halted, pc>>

\* line 20, second half: the thread writes the counter back, incremented,
\* and the table it constructs takes the value read as its m_id
Table_write(t) ==
    /\ threads[t].at = "read"
    /\ GLOBAL_TABLE_ID' = threads[t].read + 1
    /\ threads' = [threads EXCEPT ![t].at = "idle",
                                  ![t].m_ids = Append(@, threads[t].read)]
    /\ UNCHANGED <<constructed, table_vars, pool, heap_count, data_table,
                   last, cum_rows, halted, pc>>

ThreadNext == \E t \in Threads : Table_read(t) \/ Table_write(t)

ThreadSpec == ThreadInit /\ [][ThreadNext]_vars

\* ------------------------------------------- the ring arithmetic by itself
\* A table without index column, of any limit from 1 to the largest
\* unsigned value and any offset below the limit (the offset a table of
\* that limit has after that many rows), on which the key of any row
\* index and the offset after any row_count are computed.
RingInit ==
    /\ GLOBAL_TABLE_ID = 1
    /\ constructed = TRUE
    /\ m_init = FALSE
    /\ m_id = 0
    /\ m_column_names = <<"id", "x">>
    /\ m_data_types = <<"DTYPE_INT32", "DTYPE_FLOAT64">>
    /\ m_limit \in 1..UMax
    /\ m_offset \in 0..(m_limit - 1)
    /\ m_index = ""
    /\ m_gnode_set = FALSE
    /\ m_gnode = NullGnode
    /\ pool = [slots |-> <<>>, pending |-> {}]
    /\ heap_count = 0
    /\ data_table = NoTable
    /\ last = Call("start", "ok", <<>>, <<>>)
    /\ cum_rows = 0
    /\ halted = FALSE
    /\ pc = Idle
    /\ threads = <<>>

\* lines 190-191 for the row ridx
ring_key(ridx) ==
    /\ last' = Call("process_index_column", "ok", ridx,
                    synth_key(ridx, m_offset, m_limit, "alt2"))
    /\ UNCHANGED <<GLOBAL_TABLE_ID, constructed, table_vars, pool, heap_count,
                   data_table, cum_rows, halted, pc, threads>>

\* line 122
ring_offset(row_count) ==
    /\ m_offset' = calculate_offset(m_offset, row_count, m_limit, "alt2")
    /\ last' = Call("calculate_offset", "ok", row_count, <<>>)
    /\ UNCHANGED <<GLOBAL_TABLE_ID, constructed, m_init, m_id, m_column_names,
                   m_data_types, m_limit, m_index, m_gnode_set, m_gnode, pool,
                   heap_count, data_table, cum_rows, halted, pc, threads>>

RingNext ==
    \/ \E ridx \in 0..UMax : ring_key(ridx)
    \/ \E row_count \in 0..UMax : ring_offset(row_count)

RingSpec == RingInit /\ [][RingNext]_vars

\* ============================================================== claims
\* a step that is a completed call of init
InitDone == last.op = "init" /\ last.status = "ok"

\* a key column read back as the unsigned value whose bit pattern it holds
Unsigned(col) == [i \in DOMAIN col |-> u32(col[i])]

\* C1: on a table with no index column, an init whose batch has row_count
\* rows, row_count < limit, gives row i (zero-based) the keys psp_pkey =
\* psp_okey = (i + offset_before) mod limit, offset_before being m_offset
\* before the call, and no two rows of the batch share a key.
C1_SynthKeys ==
    (InitDone /\ m_index = "" /\ last.arg.row_count < m_limit) =>
        LET n == last.arg.row_count
            offset_before == last.pre.m_offset
            pkey == Unsigned(data_table.data["psp_pkey"])
            okey == Unsigned(data_table.data["psp_okey"])
        IN /\ data_table.size = n
           /\ Len(pkey) = n /\ Len(okey) = n
           /\ \A i \in 0..(n - 1) :
                 /\ pkey[i + 1] = (i + offset_before) % m_limit
                 /\ okey[i + 1] = (i + offset_before) % m_limit
           /\ \A i, j \in 1..n : i # j => pkey[i] # pkey[j]

\* C2: on a table with no index column and limit L >= 1, the row that is
\* the j-th row ingested overall (zero-based, over all batches) gets the
\* key j mod L.
C2_WrapAround ==
    (InitDone /\ m_index = "" /\ m_limit >= 1) =>
        LET pkey == Unsigned(data_table.data["psp_pkey"])
            first == cum_rows - last.arg.row_count
        IN \A i \in 0..(data_table.size - 1) :
              pkey[i + 1] = (first + i) % m_limit

\* C3: whenever the rows ingested so far number exactly k * limit, the
\* offset is 0.
C3_OffsetZeroAtMultiple ==
    (constructed /\ m_limit >= 1 /\ cum_rows % m_limit = 0) => m_offset = 0

\* C4: a table constructed with limit >= 1 has 0 <= offset < limit in
\* every state, whatever the row_count of its init calls.
C4_OffsetInRing ==
    (constructed /\ m_limit >= 1) => (0 <= m_offset /\ m_offset < m_limit)

\* an init with row_count >= limit has left a non-zero offset
C4_Witness ==
    /\ last.op = "init" /\ last.status = "ok"
    /\ m_limit > 1
    /\ last.arg.row_count >= m_limit
    /\ m_offset > 0

\* C5: with an index column configured, init makes psp_pkey and psp_okey
\* row by row equal to the values of the index column, which it leaves as
\* they were, whatever the offset and the limit of the table.
C5_IndexKeys ==
    (last.op = "init" /\ last.status = "ok" /\ m_index # "") =>
        /\ data_table.data[m_index] = IdCol(last.arg.row_count)
        /\ data_table.data["psp_pkey"] = data_table.data[m_index]
        /\ data_table.data["psp_okey"] = data_table.data[m_index]

\* the batch 10, 11, 12 ingested by a keyed table whose offset was not 0
C5_Witness ==
    /\ last.op = "init" /\ last.status = "ok"
    /\ m_index = "id"
    /\ data_table.data["psp_pkey"] = <<10, 11, 12>>
    /\ data_table.data["psp_okey"] = <<10, 11, 12>>
    /\ m_limit = UMax /\ cum_rows = 5 /\ m_offset = 5

\* C6: init with op = OP_DELETE tags every row of the batch DELETE, with
\* any other op INSERT, for every batch size; the keys and the new offset
\* are those of the same call made with OP_INSERT.
C6_OpTag ==
    InitDone =>
        LET n == data_table.size
            tag == IF last.arg.op = "OP_DELETE" THEN OP_DELETE
                   ELSE OP_INSERT
            ins == process_index_column(
                       process_op_column(Batch(n), "OP_INSERT"),
                       m_index, last.pre.m_offset, m_limit, "alt2")
        IN /\ data_table.data["psp_op"] = [i \in 1..n |-> tag]
           /\ m_limit # 0 =>
                 /\ data_table.data["psp_pkey"] = ins.data["psp_pkey"]
                 /\ data_table.data["psp_okey"] = ins.data["psp_okey"]
                 /\ m_offset = calculate_offset(last.pre.m_offset,
                                   last.arg.row_count, m_limit, "alt2")

\* a delete batch of several rows, all tagged DELETE
C6_Witness ==
    /\ last.op = "init" /\ last.status = "ok"
    /\ last.arg.op = "OP_DELETE"
    /\ data_table.size = MaxRows
    /\ \A i \in 1..MaxRows : data_table.data["psp_op"][i] = OP_DELETE

CheckedAccessors ==
    {"size", "get_schema", "get_column_names", "get_data_types",
     "get_index", "get_pool", "get_gnode"}

\* C8: size, get_schema, get_column_names, get_data_types, get_index,
\* get_pool and get_gnode fail with UninitializedError and leave the table
\* as it was when no init has completed, and succeed once one has; m_init
\* never goes back to false.
C8_Accessors ==
    /\ last.op \in CheckedAccessors =>
          /\ last.status = IF last.pre.m_init THEN "ok"
                           ELSE "UninitializedError"
          /\ Now = last.pre
    /\ last.pre.m_init => m_init

\* an accessor called before the first init
C8_Witness ==
    /\ last.op = "get_index" /\ last.status = "UninitializedError"
    /\ ~m_init /\ m_limit = MaxRows /\ m_index = "id"

\* C9: the construction of a Table with limit = 0 fails with ConfigError,
\* and no table with limit 0 gets to init.
C9_ZeroLimitRejected ==
    /\ (last.op = "Table" /\ last.arg.limit = 0) =>
           last.status = "ConfigError"
    /\ last.op = "init" => m_limit # 0

\* C10: a completed init leaves the table initialized with one gnode
\* bound; it constructs and registers a gnode only when none was bound,
\* and otherwise leaves the bound gnode and the registrations as they were.
C10_NodeBinding ==
    InitDone =>
        /\ m_init /\ m_gnode_set /\ m_gnode.ref # 0
        /\ IF last.pre.m_gnode_set
           THEN /\ m_gnode = last.pre.m_gnode
                /\ pool.slots = last.pre.pool.slots
                /\ heap_count = last.pre.heap_count
           ELSE /\ heap_count = last.pre.heap_count + 1
                /\ m_gnode.ref = heap_count
                /\ pool.slots = Append(last.pre.pool.slots, m_gnode.ref)
                /\ m_gnode.id = Len(last.pre.pool.slots)

\* an init after a rebind: the gnode of the rebind is still the bound one
C10_Witness ==
    /\ last.op = "init" /\ last.status = "ok"
    /\ m_limit = MaxRows /\ last.arg.row_count > 0
    /\ heap_count = 2 /\ m_gnode.ref = 2
    /\ Len(pool.slots) = 2

\* C11: every batch init or replace_data_table has sent is addressed, on
\* port 0, to the id of the gnode bound at the send, which the pool had
\* registered before (in the same call when the call made the gnode; the
\* caller may have unregistered it since); init sends the batch with its
\* psp_op, psp_pkey and psp_okey columns, and sets m_init only after the
\* send.
C11_Handoff ==
    /\ \A m \in pool.pending : m.port = 0 /\ m.gnode < Len(pool.slots)
    /\ (Passed("send") /\ ~Passed("_process")) =>
          /\ Sent(m_gnode.id, 0, data_table) \in pool.pending
          /\ m_gnode.id < Len(pool.slots)
          /\ pool.slots[m_gnode.id + 1] \in {m_gnode.ref, 0}
          /\ ~last.pre.m_gnode_set \/ last.op = "replace_data_table" =>
                pool.slots[m_gnode.id + 1] = m_gnode.ref
    /\ (pc.call = "init" /\ Passed("send")) =>
          \A c \in {"psp_op", "psp_pkey", "psp_okey"} :
             \E m \in pool.pending :
                m.gnode = m_gnode.id /\ has_column(m.columns, c)
    /\ (pc.call = "init" /\ ~Passed("send")) => m_init = last.pre.m_init

\* a first init that has sent its batch and not yet set m_init
C11_Witness ==
    /\ At("init", "m_init")
    /\ ~m_init /\ ~last.pre.m_gnode_set
    /\ data_table.size = MaxRows
    /\ pool.pending = {Sent(0, 0, data_table)}
    /\ has_column(data_table.columns, "psp_okey")

\* C12: replace_data_table leaves m_id, m_column_names, m_data_types,
\* m_limit, m_index, m_offset and m_init as they were, and sends the block
\* as it was given, with no psp_op, psp_pkey or psp_okey column added.
C12_ReplaceFrame ==
    (last.op = "replace_data_table" /\ last.status \in {"running", "ok"}) =>
        /\ m_id = last.pre.m_id
        /\ m_column_names = last.pre.m_column_names
        /\ m_data_types = last.pre.m_data_types
        /\ m_limit = last.pre.m_limit
        /\ m_index = last.pre.m_index
        /\ m_offset = last.pre.m_offset
        /\ m_init = last.pre.m_init
        /\ data_table = last.arg
        /\ \A c \in {"psp_op", "psp_pkey", "psp_okey"} :
              ~has_column(data_table.columns, c)
        /\ At("replace_data_table", "_process") =>
              /\ m_gnode.ref # last.pre.m_gnode.ref
              /\ [gnode |-> m_gnode.id, port |-> 0,
                  columns |-> last.arg.columns] \in pool.pending

\* a block sent by replace_data_table on a table whose offset is not 0
C12_Witness ==
    /\ At("replace_data_table", "_process")
    /\ m_offset > 0 /\ m_limit = MaxRows /\ m_index = ""
    /\ m_gnode.ref = 2
    /\ [gnode |-> 1, port |-> 0, columns |-> <<"id", "x">>] \in pool.pending

\* C13: when a successful replace_data_table has returned the pool holds
\* no pending batch, neither the new block nor a batch of an earlier init;
\* when init has returned its batch is pending with all that was pending
\* before, and nothing is processed while init runs.
C13_SyncProcess ==
    /\ (pc.at = "idle" /\ last.op = "replace_data_table"
        /\ last.status = "ok") => pool.pending = {}
    /\ last.op = "init" =>
          /\ last.pre.pool.pending \subseteq pool.pending
          /\ (pc.at = "idle" /\ last.status = "ok") =>
                Sent(m_gnode.id, 0, data_table) \in pool.pending

\* a replace_data_table that returned, made while a batch was pending
C13_Witness ==
    /\ pc.at = "idle"
    /\ last.op = "replace_data_table" /\ last.status = "ok"
    /\ last.pre.pool.pending # {}
    /\ pool.pending = {}
    /\ pool.slots = <<1, 2>>

\* C14: a successful replace_data_table registers the new gnode in a new
\* slot and leaves every earlier registration in place; a registration
\* goes only by unregister_gnode called with its id; so with no
\* unregister_gnode the pool holds one registration per gnode made, n + 1
\* after n replace_data_table calls, and the table is bound to the newest.
C14_Orphans ==
    /\ (last.op = "replace_data_table" /\ last.status = "ok") =>
          /\ pool.slots = Append(last.pre.pool.slots, m_gnode.ref)
          /\ m_gnode.id = Len(last.pre.pool.slots)
          /\ m_gnode.ref \notin {last.pre.pool.slots[k] :
                                    k \in 1..Len(last.pre.pool.slots)}
          /\ pool_registered(last.pre.pool, last.pre.m_gnode.id) =>
                pool.slots[last.pre.m_gnode.id + 1] = last.pre.m_gnode.ref
    /\ \A k \in 1..Len(last.pre.pool.slots) :
          pool.slots[k] # last.pre.pool.slots[k] =>
             /\ last.op = "unregister_gnode" /\ last.status = "ok"
             /\ last.arg = k - 1
             /\ pool.slots[k] = 0
    /\ Len(pool.slots) = heap_count
    /\ (m_init /\ Registrations(pool) = 1..Len(pool.slots)) =>
          /\ Cardinality(Registrations(pool)) = heap_count
          /\ m_gnode.ref = heap_count
          /\ m_gnode.id = heap_count - 1

\* after init and MaxGnodes - 1 replace_data_table calls, MaxGnodes
\* registrations, the older ones orphaned
C14_Witness ==
    /\ last.op = "replace_data_table" /\ last.status = "ok"
    /\ heap_count = MaxGnodes
    /\ Cardinality(Registrations(pool)) = MaxGnodes
    /\ Registrations(last.pre.pool) = 1..(MaxGnodes - 1)
    /\ m_gnode.id = MaxGnodes - 1
    /\ pool.slots[1] = 1

\* the columns of a schema that are neither psp_pkey nor psp_op, in order
Stripped(schema) ==
    LET keep == {k \in 1..Len(schema.columns) :
                    schema.columns[k] \notin {"psp_pkey", "psp_op"}}
        nth(i) == CHOOSE k \in keep : Cardinality({j \in keep : j < k}) = i - 1
    IN [columns |-> [i \in 1..Cardinality(keep) |-> schema.columns[nth(i)]],
        types |-> [i \in 1..Cardinality(keep) |-> schema.types[nth(i)]]]

\* C15: for every input schema of distinct columns, with psp_pkey and
\* psp_op at any positions, the gnode made from it has the input schema
\* without those two columns, the others in their order, as its output
\* schema and the input schema itself as its input schema.
C15_Strip ==
    (last.op = "replace_data_table" /\ last.pre.m_init) =>
        /\ last.status = "ok"
        /\ m_gnode.in_schema = get_schema_of(last.arg)
        /\ m_gnode.out_schema = Stripped(get_schema_of(last.arg))

\* C16: a call of any accessor, of get_id, of set_column_names or
\* set_data_types, of unregister_gnode or of reset_gnode made before the
\* first init has completed fails with UninitializedError.
C16_AllGuarded ==
    (/\ last.op \in CheckedAccessors \cup
                    {"get_id", "set_column_names", "set_data_types",
                     "unregister_gnode", "reset_gnode"}
     /\ ~last.pre.m_init) =>
        last.status = "UninitializedError"

\* C17: any two tables ever constructed, by the same thread or by
\* different threads, have different ids, and a thread's tables have
\* increasing ids.
C17_UniqueIds ==
    /\ \A t, u \in DOMAIN threads :
          \A i \in 1..Len(threads[t].m_ids), j \in 1..Len(threads[u].m_ids) :
             (t # u \/ i # j) => threads[t].m_ids[i] # threads[u].m_ids[j]
    /\ \A t \in DOMAIN threads :
          \A i, j \in 1..Len(threads[t].m_ids) :
             i < j => threads[t].m_ids[i] < threads[t].m_ids[j]

\* C18: in every state of a constructed table m_column_names and
\* m_data_types have the same length.
C18_SchemaLengths ==
    constructed => Len(m_column_names) = Len(m_data_types)

\* C19: for every limit from 1 to the largest unsigned value, every
\* offset below the limit and every row index and row_count up to the
\* largest unsigned value, the key computed is (ridx + offset) mod limit
\* and the offset computed is (offset + row_count) mod limit, the sums
\* being those of the integers.
C19_RingExact ==
    /\ last.op = "process_index_column" =>
          u32(last.ret) = (last.arg + m_offset) % m_limit
    /\ last.op = "calculate_offset" =>
          m_offset = (last.pre.m_offset + last.arg) % m_limit

====
